---------------------------- MODULE Spec2Model ----------------------------
(***************************************************************************)
(* A model of the health-check ML service.                                 *)
(*                                                                         *)
(*   src/app.py         MLModel (load-or-train handle around a random      *)
(*                      forest) and the Flask handlers /health,            *)
(*                      /readiness, /predict, /metrics, /retrain.          *)
(*   src/app_simple.py  the stateless mock /score handler.                 *)
(*                                                                         *)
(* app.py is run by `app.run(...)` (app.py:176-178), Flask's development   *)
(* server, which serves every request in a thread of its own: the handlers *)
(* of one process interleave at the statements that read or write          *)
(* ml_model.model.  The main thread imports the module first (app.py:77-78 *)
(* construct the handle and load it) and only then starts to listen.       *)
(***************************************************************************)
EXTENDS Integers, Sequences, FiniteSets, TLC

VARIABLES
    pc,             \* pc[0]: the main thread (module import); pc[t]: request thread t
    loc,            \* loc[t]: the locals of request thread t (its decoded body)
    model,          \* ml_model.model: 0 is None, else a classifier object
    model_version,  \* ml_model.model_version
    model_fitted,   \* the object ml_model.model refers to has completed fit();
                    \* no other classifier is reachable: train_model and predict
                    \* hold no reference of their own, each statement goes
                    \* through self.model
    nobj,           \* classifier objects created so far
    disk,           \* the artifact file model.pkl
    allowNaN,       \* the installed scikit-learn accepts NaN at predict time
    last,           \* the last HTTP exchange: endpoint, decoded body, response
    saved,          \* what a test's patch() of ml_model.model saved, to restore
    sreq,           \* app_simple: the decoded body of the last /score request
    sresp,          \* app_simple: the response to it
    wk,             \* gunicorn: wk[w] is worker process w: its position, its
                    \* copy of ml_model.model and its last response
    dp              \* the deployment scripts: the state of one run

vars == <<pc, loc, model, model_version, model_fitted, nobj, disk, allowNaN,
          last, saved, sreq, sresp, wk, dp>>

scoreVars == <<sreq, sresp>>
workerVars == <<wk>>
deployVars == <<dp>>
appVars == <<pc, loc, model, model_version, model_fitted, nobj, disk, allowNaN, last, saved>>

(***************************************************************************)
(* Bounds of the model.                                                    *)
(***************************************************************************)
NThreads == 2       \* request threads of the one process
MaxObj == 3         \* classifier objects created in one run (load + retrains)
MaxRows == 3        \* rows of a /score batch
MaxDeployments == 3 \* deployments on the endpoint before a deployment run
NWorkers == 2       \* gunicorn workers (gunicorn_config.py:8 starts 2 * cpus + 1)

(***************************************************************************)
(* Program constants.                                                      *)
(***************************************************************************)
NFeatures == 20     \* app.py:123, the length /predict requires
NClasses == 2       \* make_classification's default number of classes
NSamples == 1000    \* app.py:31, n_samples
NEstimators == 100  \* app.py:38, n_estimators
KeepCount == 2      \* deploy_to_azure_ml.py:419, keep_count

Threads == 1..NThreads
Main == 0

(***************************************************************************)
(* Decoded JSON values (what request.get_json() returns).  A list is held  *)
(* as its first items followed by `pad` repeated up to length `len`, so    *)
(* that [0.1] * 20 is one small value.                                     *)
(***************************************************************************)
Num(k) == [t |-> "num", v |-> k]
Str(s) == [t |-> "str", v |-> s]
Null == [t |-> "null", v |-> "null"]
List(items, pad, len) == [t |-> "list", items |-> items, pad |-> pad, len |-> len]
Dict(m) == [t |-> "dict", m |-> m]
\* A body get_json() cannot decode (not JSON, or not sent as application/json).
Undecodable == [t |-> "undecodable", v |-> ""]
NoBody == [t |-> "nobody", v |-> ""]

\* Numbers: small finite ones (> 0, <= 0), a finite one beyond float32 (1e39),
\* and the NaN and Infinity literals Python's json module decodes.
NumKinds == {"pos", "neg", "big", "nan", "inf"}
FiniteKinds == {"pos", "neg", "big"}

ListItem(l, i) == IF i <= Len(l.items) THEN l.items[i] ELSE l.pad
ListItems(l) == {ListItem(l, i) : i \in 1..l.len}

\* Python's `a in b` between two of the strings used here.
IsSubstr(a, b) == a = b \/ (a = "features" /\ b = "my features")

\* Python's `key in d`: "True", "False", or the TypeError of a non-container.
PyIn(key, d) ==
    CASE d.t = "dict" -> IF key \in DOMAIN d.m THEN "True" ELSE "False"
      [] d.t = "list" -> IF Str(key) \in ListItems(d) THEN "True" ELSE "False"
      [] d.t = "str"  -> IF IsSubstr(key, d.v) THEN "True" ELSE "False"
      [] OTHER        -> "TypeError"

\* Python's d[key] for a string key: only a dict has one.
PyGetItemRaises(d) == d.t # "dict"

IsList(v) == v.t = "list"

IsFiniteNumber(e) == e.t = "num" /\ e.v \in FiniteKinds

(***************************************************************************)
(* HTTP responses.                                                         *)
(***************************************************************************)
\* accuracy: the "accuracy" field of the /retrain body, in correct test rows.
\* proba: the probability of class 1, in NEstimators-ths.
NoResult == [prediction |-> -1, nprob |-> 0, proba |-> -1, version |-> "", accuracy |-> -1]

\* status: the HTTP status; text: the body's "status" field; keys: the body's
\* fields; success: its "success" field; err: the exception behind its "error"
\* field; result: its "result" field.
Resp(status, text, keys, success, err, result) ==
    [status |-> status, text |-> text, keys |-> keys, success |-> success,
     err |-> err, result |-> result]

\* No HTTP response at all: nothing listens on the port.
NoResponse == Resp(0, "", {}, "-", "ConnectionRefused", NoResult)
\* An exchange: the endpoint, the decoded body, the response, how far the
\* handler went into the model ("none"; "handle": it called ml_model.predict or
\* ml_model.train_model; "classifier": that call reached a method of the
\* classifier), and whether the import of app.py had completed on arrival.
NoExchange ==
    [ep |-> "none", body |-> NoBody, resp |-> NoResponse, invoked |-> "none",
     loaded |-> FALSE]

Exchange(ep, body, resp, invoked) ==
    [ep |-> ep, body |-> body, resp |-> resp, invoked |-> invoked,
     loaded |-> pc[Main] = "serving"]

Listening == pc[Main] = "serving"

(***************************************************************************)
(* The artifact file.                                                      *)
(***************************************************************************)
Absent == [kind |-> "absent", fitted |-> FALSE]
Corrupt == [kind |-> "corrupt", fitted |-> FALSE]
Pickled(f) == [kind |-> "clf", fitted |-> f]
PickledNone == [kind |-> "none", fitted |-> FALSE]

(***************************************************************************)
(* scikit-learn, as app.py uses it.                                        *)
(***************************************************************************)
\* check_array(X, dtype=float32) inside predict / predict_proba: every element
\* must convert to a finite float32.  1e39 overflows to inf; a NaN passes only
\* where the forest supports missing values (scikit-learn >= 1.4).
ElementAccepted(e) ==
    /\ e.t = "num"
    /\ \/ e.v \in {"pos", "neg"}
       \/ e.v = "nan" /\ allowNaN

\* The forest was fitted on n_features=20 columns (app.py:31) and refuses a row
\* of another length.
CheckArrayAccepts(features) ==
    /\ features.len = NFeatures
    /\ \A e \in ListItems(features) : ElementAccepted(e)

\* The vectors check_array can accept: NFeatures numbers.
Vectors ==
    {List(items, Num("pos"), NFeatures) : items \in {<<>>, <<Num("nan")>>}}

\* The fitted forest's decision function: training is seeded (random_state=42,
\* app.py:31-38), so every fitted classifier computes the same function from
\* vectors to the classes 0 .. NClasses-1.  Which function is not known here:
\* it is some fixed one.
Forest == CHOOSE f \in [Vectors -> 0..(NClasses - 1)] : TRUE
ForestLabel(features) == Forest[features]

\* predict_proba of the fitted forest: the mean over its NEstimators trees of
\* the probability of class 1, in NEstimators-ths; predict returns the class
\* with the larger mean.
ForestProba(features) ==
    CHOOSE p \in 0..NEstimators : Forest[features] = 1 <=> 2 * p > NEstimators

\* app.py:35: the test split is a fifth of the NSamples generated rows.
TestSize == NSamples \div 5

\* app.py:42-43: accuracy_score(y_test, y_pred) of the fitted forest, as the
\* number of the TestSize test rows it labels correctly (the score is that
\* number divided by TestSize).  Data, split and forest are seeded, so it is
\* one fixed number.
ForestAccuracy == CHOOSE a \in 0..TestSize : TRUE

(***************************************************************************)
(* Steps of a thread.                                                      *)
(***************************************************************************)
Goto(e, p) == pc' = [pc EXCEPT ![e] = p]

\* A handler returns its response: the exchange is complete, the thread is free.
Respond(t, ep, body, resp, invoked) ==
    /\ last' = Exchange(ep, body, resp, invoked)
    /\ Goto(t, "idle")
    /\ loc' = [loc EXCEPT ![t] = NoBody]

ErrorBody == {"success", "error", "timestamp"}

(***************************************************************************)
(* MLModel.train_model (app.py:26-51), run by the main thread from         *)
(* load_model or by a request thread from the /retrain handler.  Every     *)
(* statement reads self.model afresh.                                      *)
(***************************************************************************)
\* A variant of TrainRaises in which retrain() calls train_model again when
\* it raised.
TrainRaisesRetries(e, err) ==
    IF e = Main
    THEN Goto(Main, "crashed") /\ UNCHANGED <<last, loc>>
    ELSE Goto(e, "t39") /\ UNCHANGED <<last, loc>>

\* train_model raised: in the main thread the import of app.py fails and the
\* process ends; in a request thread retrain()'s except answers 500
\* (app.py:168-174).
TrainRaises(e, err) ==
    IF e = Main
    THEN Goto(Main, "crashed") /\ UNCHANGED <<last, loc>>
    ELSE Respond(e, "retrain", NoBody, Resp(500, "", ErrorBody, "False", err, NoResult),
                 "classifier")

\* train_model returned the accuracy: load_model returns and the module goes on
\* to app.run (app.py:60, 176-178); retrain() answers 200 (app.py:161-166).
TrainReturns(e) ==
    IF e = Main
    THEN Goto(Main, "serving") /\ UNCHANGED <<last, loc>>
    ELSE Respond(e, "retrain", NoBody,
                 Resp(200, "", {"success", "message", "accuracy", "timestamp"},
                      "True", "", [NoResult EXCEPT !.accuracy = ForestAccuracy]),
                 "classifier")

\* A variant of TrainInstall that empties the handle for the length of the
\* training (self.model = None before the data is generated).
TrainInstallClearsHandle(e) ==
    /\ nobj < MaxObj
    /\ nobj' = nobj + 1
    /\ model' = 0
    /\ model_fitted' = FALSE
    /\ Goto(e, "t39")
    /\ UNCHANGED <<loc, model_version, disk, allowNaN, last, saved, scoreVars, workerVars, deployVars>>

\* app.py:28-38: the data is generated and split, then a new, unfitted
\* RandomForestClassifier is assigned to self.model.
TrainInstall(e) ==
    /\ nobj < MaxObj
    /\ nobj' = nobj + 1
    /\ model' = nobj + 1
    /\ model_fitted' = FALSE
    /\ Goto(e, "t39")
    /\ UNCHANGED <<loc, model_version, disk, allowNaN, last, saved, scoreVars, workerVars, deployVars>>

\* A variant of TrainFit in which a successful fit also bumps the version.
TrainFitBumpsVersion(e) ==
    /\ pc[e] = "t39"
    /\ \/ /\ model # 0
          /\ model_fitted' = TRUE
          /\ model_version' = "1.0.1"
          /\ Goto(e, "t42")
          /\ UNCHANGED <<last, loc>>
       \/ /\ TrainRaises(e, IF model = 0 THEN "AttributeError" ELSE "MemoryError")
          /\ UNCHANGED <<model_fitted, model_version>>
    /\ UNCHANGED <<model, nobj, disk, allowNaN, saved, scoreVars, workerVars, deployVars>>

\* A variant of TrainFit in which a failed fit leaves the handle empty.
TrainFitClearsOnFailure(e) ==
    /\ pc[e] = "t39"
    /\ \/ /\ model # 0
          /\ model_fitted' = TRUE
          /\ Goto(e, "t42")
          /\ UNCHANGED <<last, loc, model>>
       \/ /\ TrainRaises(e, IF model = 0 THEN "AttributeError" ELSE "MemoryError")
          /\ model' = 0
          /\ model_fitted' = FALSE
    /\ UNCHANGED <<model_version, nobj, disk, allowNaN, saved, scoreVars, workerVars, deployVars>>

\* app.py:39: self.model.fit(X_train, y_train); fit may fail (MemoryError).
TrainFit(e) ==
    /\ pc[e] = "t39"
    /\ \/ /\ model # 0
          /\ model_fitted' = TRUE
          /\ Goto(e, "t42")
          /\ UNCHANGED <<last, loc>>
       \/ /\ TrainRaises(e, IF model = 0 THEN "AttributeError" ELSE "MemoryError")
          /\ UNCHANGED model_fitted
    /\ UNCHANGED <<model, model_version, nobj, disk, allowNaN, saved, scoreVars, workerVars, deployVars>>

\* app.py:42-43: self.model.predict(X_test) and the accuracy.
TrainEvaluate(e) ==
    /\ pc[e] = "t42"
    /\ IF model = 0 THEN TrainRaises(e, "AttributeError")
       ELSE IF ~model_fitted THEN TrainRaises(e, "NotFittedError")
       ELSE Goto(e, "t48") /\ UNCHANGED <<last, loc>>
    /\ UNCHANGED <<model, model_version, model_fitted, nobj, disk, allowNaN, saved, scoreVars, workerVars, deployVars>>

\* app.py:48-51: joblib.dump(self.model, self.model_path), then return.  The
\* dump may fail before it opens the file or part way through writing it.
TrainSave(e) ==
    /\ pc[e] = "t48"
    /\ \/ /\ disk' = (IF model = 0 THEN PickledNone ELSE Pickled(model_fitted))
          /\ TrainReturns(e)
       \/ /\ disk' \in {disk, Corrupt}
          /\ TrainRaises(e, "OSError")
    /\ UNCHANGED <<model, model_version, model_fitted, nobj, allowNaN, saved, scoreVars, workerVars, deployVars>>

(***************************************************************************)
(* Module import (app.py:76-78) by the main thread.                        *)
(***************************************************************************)
\* app.py:77 and 21-24: ml_model = MLModel().
Construct ==
    /\ pc[Main] = "l77"
    /\ model' = 0
    /\ model_version' = "1.0.0"
    /\ Goto(Main, "l78")
    /\ UNCHANGED <<loc, model_fitted, nobj, disk, allowNaN, last, saved, scoreVars, workerVars, deployVars>>

\* A variant of LoadExisting that trains although the artifact exists.
LoadExistingRetrains ==
    /\ pc[Main] = "l78"
    /\ disk.kind # "absent"
    /\ TrainInstall(Main)

\* app.py:55-57: the artifact exists: self.model = joblib.load(path).  A file
\* that does not unpickle makes joblib.load raise, and the import fails.
LoadExisting ==
    /\ pc[Main] = "l78"
    /\ disk.kind # "absent"
    /\ IF disk.kind = "corrupt"
       THEN /\ Goto(Main, "crashed")
            /\ UNCHANGED <<model, model_fitted, nobj>>
       ELSE /\ nobj < MaxObj
            /\ nobj' = nobj + 1
            /\ model' = (IF disk.kind = "none" THEN 0 ELSE nobj + 1)
            /\ model_fitted' = disk.fitted
            /\ Goto(Main, "serving")
    /\ UNCHANGED <<loc, model_version, disk, allowNaN, last, saved, scoreVars, workerVars, deployVars>>

\* app.py:58-60: no artifact: self.train_model().
LoadTrain ==
    /\ pc[Main] = "l78"
    /\ disk.kind = "absent"
    /\ TrainInstall(Main)

(***************************************************************************)
(* POST /predict (app.py:111-143) and MLModel.predict (app.py:62-74).      *)
(***************************************************************************)
ClientError(msg) == Resp(400, "", {"error"}, "-", msg, NoResult)
ServerError(err) == Resp(500, "", ErrorBody, "False", err, NoResult)

\* A variant of PredictFrontEnd that tests len(features) < 20 instead of != 20.
PredictFrontEndMinLength(data) ==
    IF data.t = "undecodable" THEN ServerError("BadRequest")
    ELSE IF PyIn("features", data) = "TypeError" THEN ServerError("TypeError")
    ELSE IF PyIn("features", data) = "False" THEN ClientError("Features not provided")
    ELSE IF PyGetItemRaises(data) THEN ServerError("TypeError")
    ELSE IF ~IsList(data.m["features"]) \/ data.m["features"].len < NFeatures
         THEN ClientError("Features must be a list of 20 numbers")
    ELSE Resp(0, "call", {}, "-", "", NoResult)

\* app.py:115-124, from get_json() to the call of ml_model.predict: the
\* response the handler returns before that call, or "call".
PredictFrontEnd(data) ==
    IF data.t = "undecodable" THEN ServerError("BadRequest")
    ELSE IF PyIn("features", data) = "TypeError" THEN ServerError("TypeError")
    ELSE IF PyIn("features", data) = "False" THEN ClientError("Features not provided")
    ELSE IF PyGetItemRaises(data) THEN ServerError("TypeError")
    ELSE IF ~IsList(data.m["features"]) \/ data.m["features"].len # NFeatures
         THEN ClientError("Features must be a list of 20 numbers")
    ELSE Resp(0, "call", {}, "-", "", NoResult)

\* The decoded bodies sent to /predict.
\* Lists of the required length: [0.1] * 20, and the same with a first element
\* that is 1e39, NaN, Infinity or a string.
FullLists ==
    {List(items, Num("pos"), NFeatures) :
        items \in {<<>>} \cup {<<Num(k)>> : k \in {"big", "nan", "inf"}}
                  \cup {<<Str("invalid")>>}}

\* Lists of another length: empty, one short, one long.
OtherLists ==
    {List(items, Num("pos"), len) :
        items \in {<<>>, <<Str("invalid")>>}, len \in {NFeatures - 1, NFeatures + 1}}
    \cup {List(<<>>, Num("pos"), 0)}

FeatureValues ==
    FullLists \cup OtherLists \cup {Null, Num("pos"), Str("invalid")}

PredictBodies ==
    {Undecodable, Null, Num("pos"), Str("invalid"), Str("my features"),
     List(<<>>, Num("pos"), 0), List(<<Str("features")>>, Num("pos"), 1),
     Dict(<<>>), Dict([k \in {"data"} |-> List(<<>>, Num("pos"), NFeatures)])}
    \cup {Dict([k \in {"features"} |-> v]) : v \in FeatureValues}

\* A request is served by a thread of its own (socketserver.ThreadingMixIn
\* under app.run): the threads have no identity, so a request takes the first
\* free one.
Free(t) ==
    /\ Listening
    /\ pc[t] = "idle"
    /\ \A u \in Threads : u < t => pc[u] # "idle"

\* A variant of Predict whose ml_model.predict lacks the `is None` check of
\* app.py:64-65.
PredictNoNoneCheck(t, data) ==
    /\ Free(t)
    /\ IF PredictFrontEnd(data).text # "call"
       THEN Respond(t, "predict", data, PredictFrontEnd(data), "none")
       ELSE /\ Goto(t, "p67")
            /\ loc' = [loc EXCEPT ![t] = data]
            /\ UNCHANGED last
    /\ UNCHANGED <<model, model_version, model_fitted, nobj, disk, allowNaN, saved, scoreVars, workerVars, deployVars>>

\* A request arrives at /predict: app.py:115-127 and, inside ml_model.predict,
\* app.py:64-65: everything up to the handler's first read of ml_model.model
\* (the statements before it touch only the request).
Predict(t, data) ==
    /\ Free(t)
    /\ IF PredictFrontEnd(data).text # "call"
       THEN Respond(t, "predict", data, PredictFrontEnd(data), "none")
       ELSE IF model = 0
       THEN Respond(t, "predict", data, ServerError("Model not loaded"), "handle")
       ELSE /\ Goto(t, "p67")
            /\ loc' = [loc EXCEPT ![t] = data]
            /\ UNCHANGED last
    /\ UNCHANGED <<model, model_version, model_fitted, nobj, disk, allowNaN, saved, scoreVars, workerVars, deployVars>>

\* The except of app.py:137-143 around ml_model.predict.
\* A variant of PredictRaises without the handler's except clause: the
\* exception leaves predict() and the framework answers with its own error page.
PredictRaisesEscapes(t, err) ==
    Respond(t, "predict", loc[t], Resp(500, "", {}, "-", err, NoResult), "classifier")

PredictRaises(t, err) == Respond(t, "predict", loc[t], ServerError(err), "classifier")

\* What self.model.predict([features]) or self.model.predict_proba([features])
\* raises, "" when it returns.
ClassifierError(features) ==
    IF model = 0 THEN "AttributeError"
    ELSE IF ~model_fitted THEN "NotFittedError"
    ELSE IF ~CheckArrayAccepts(features) THEN "ValueError"
    ELSE ""

\* app.py:67: prediction = self.model.predict([features]).
PredictLabel(t) ==
    /\ pc[t] = "p67"
    /\ IF ClassifierError(loc[t].m["features"]) # ""
       THEN PredictRaises(t, ClassifierError(loc[t].m["features"]))
       ELSE Goto(t, "p68") /\ UNCHANGED <<last, loc>>
    /\ UNCHANGED <<model, model_version, model_fitted, nobj, disk, allowNaN, saved, scoreVars, workerVars, deployVars>>

\* A variant of PredictionResult whose label and probabilities depend on the
\* exchange before (a forest that is not seeded).
PredictionResultAlternates(features) ==
    [prediction |-> IF last.ep = "predict" THEN 1 - ForestLabel(features)
                    ELSE ForestLabel(features),
     nprob |-> NClasses,
     proba |-> IF last.ep = "predict" THEN NEstimators - ForestProba(features)
               ELSE ForestProba(features),
     version |-> model_version, accuracy |-> -1]

\* app.py:70-74: the dict MLModel.predict returns.
PredictionResult(features) ==
    [prediction |-> ForestLabel(features), nprob |-> NClasses,
     proba |-> ForestProba(features),
     version |-> model_version, accuracy |-> -1]

\* app.py:68-74 and 129-135: probabilities = self.model.predict_proba([features]),
\* the result, and the 200 response.
PredictProba(t) ==
    /\ pc[t] = "p68"
    /\ IF ClassifierError(loc[t].m["features"]) # ""
       THEN PredictRaises(t, ClassifierError(loc[t].m["features"]))
       ELSE Respond(t, "predict", loc[t],
                    Resp(200, "", {"success", "result", "timestamp"}, "True", "",
                         PredictionResult(loc[t].m["features"])),
                    "classifier")
    /\ UNCHANGED <<model, model_version, model_fitted, nobj, disk, allowNaN, saved, scoreVars, workerVars, deployVars>>

(***************************************************************************)
(* The other handlers of app.py.                                           *)
(***************************************************************************)
\* A variant of Health that reports unhealthy unless a fitted classifier is
\* resident.
HealthRequiresModel(t) ==
    /\ Free(t)
    /\ Respond(t, "health", NoBody,
               IF model # 0 /\ model_fitted
               THEN Resp(200, "healthy", {"status", "timestamp", "version"}, "-", "",
                         [NoResult EXCEPT !.version = model_version])
               ELSE Resp(503, "unhealthy", {"status", "timestamp", "version"}, "-", "",
                         [NoResult EXCEPT !.version = model_version]),
               "none")
    /\ UNCHANGED <<model, model_version, model_fitted, nobj, disk, allowNaN, saved, scoreVars, workerVars, deployVars>>

\* GET /health, app.py:80-87.
Health(t) ==
    /\ Free(t)
    /\ Respond(t, "health", NoBody,
               Resp(200, "healthy", {"status", "timestamp", "version"}, "-", "",
                    [NoResult EXCEPT !.version = model_version]),
               "none")
    /\ UNCHANGED <<model, model_version, model_fitted, nobj, disk, allowNaN, saved, scoreVars, workerVars, deployVars>>

\* A variant of ReadinessResponse without the `is None` test of app.py:94.
ReadinessResponseAlwaysReady ==
    Resp(200, "ready", {"status", "timestamp"}, "-", "", NoResult)

\* GET /readiness, app.py:89-109.
ReadinessResponse ==
    IF model = 0
    THEN Resp(503, "not_ready", {"status", "message"}, "-", "Model not loaded", NoResult)
    ELSE Resp(200, "ready", {"status", "timestamp"}, "-", "", NoResult)

Readiness(t) ==
    /\ Free(t)
    /\ Respond(t, "readiness", NoBody, ReadinessResponse, "none")
    /\ UNCHANGED <<model, model_version, model_fitted, nobj, disk, allowNaN, saved, scoreVars, workerVars, deployVars>>

\* A variant of Metrics that also empties the handle.
MetricsResetsHandle(t) ==
    /\ Free(t)
    /\ Respond(t, "metrics", NoBody,
               Resp(200, "active", {"model_version", "status", "timestamp"}, "-", "",
                    [NoResult EXCEPT !.version = model_version]),
               "none")
    /\ model' = 0
    /\ UNCHANGED <<model_version, model_fitted, nobj, disk, allowNaN, saved, scoreVars, workerVars, deployVars>>

\* GET /metrics, app.py:145-152.
Metrics(t) ==
    /\ Free(t)
    /\ Respond(t, "metrics", NoBody,
               Resp(200, "active", {"model_version", "status", "timestamp"}, "-", "",
                    [NoResult EXCEPT !.version = model_version]),
               "none")
    /\ UNCHANGED <<model, model_version, model_fitted, nobj, disk, allowNaN, saved, scoreVars, workerVars, deployVars>>

\* POST /retrain, app.py:154-159: the handler calls ml_model.train_model().
Retrain(t) ==
    /\ Free(t)
    /\ TrainInstall(t)

\* A readiness probe sent while the main thread is still importing app.py (or
\* after the import failed): app.run (app.py:176-178) has not bound the port,
\* and the probe gets no HTTP response.
ProbeBeforeListen ==
    /\ ~Listening
    /\ last' = Exchange("readiness", NoBody, NoResponse, "none")
    /\ UNCHANGED <<pc, loc, model, model_version, model_fitted, nobj, disk, allowNaN, saved, scoreVars, workerVars, deployVars>>

(***************************************************************************)
(* The test suite's @patch('app.ml_model.model', None)                     *)
(* (tests/test_app.py:115): the attribute is set to None for the length of *)
(* a test and restored after it.  The test client is synchronous, so the   *)
(* patch starts and ends between requests.                                 *)
(***************************************************************************)
NoPatch == [id |-> -1, fitted |-> FALSE]

Quiet == Listening /\ \A t \in Threads : pc[t] = "idle"

Patch ==
    /\ Quiet
    /\ saved = NoPatch
    /\ saved' = [id |-> model, fitted |-> model_fitted]
    /\ model' = 0
    /\ model_fitted' = FALSE
    /\ UNCHANGED <<pc, loc, model_version, nobj, disk, allowNaN, last, scoreVars, workerVars, deployVars>>

Unpatch ==
    /\ Quiet
    /\ saved # NoPatch
    /\ model' = saved.id
    /\ model_fitted' = saved.fitted
    /\ saved' = NoPatch
    /\ UNCHANGED <<pc, loc, model_version, nobj, disk, allowNaN, last, scoreVars, workerVars, deployVars>>

(***************************************************************************)
(* POST /score of app_simple.py (app_simple.py:27-71): a stateless mock.   *)
(***************************************************************************)
\* Python's `e > 0`: "True", "False", or the TypeError of a non-number.
PyGt0(e) ==
    IF e.t # "num" THEN "TypeError"
    ELSE IF e.v \in {"pos", "big", "inf"} THEN "True" ELSE "False"

\* app_simple.py:38-44 and 53-59: the mock prediction from the first feature;
\* probabilities in tenths.
MockPrediction(first) ==
    [kind |-> "prediction",
     prediction |-> IF PyGt0(first) = "True" THEN 1 ELSE 0,
     probabilities |-> IF PyGt0(first) = "True" THEN <<3, 7>> ELSE <<7, 3>>,
     model_version |-> "1.0.0"]

RowError == [kind |-> "error", prediction |-> -1, probabilities |-> <<>>,
             model_version |-> ""]

\* shape: "array" (items: its entries), "object" (items: the one prediction) or
\* "error" (err: the message or exception).
ScoreResp(status, shape, items, err) ==
    [status |-> status, shape |-> shape, items |-> items, err |-> err]

NoScoreResp == ScoreResp(0, "none", <<>>, "")

\* A variant of ScoreLoop that puts each result in front of the earlier ones.
RECURSIVE ScoreLoopReversed(_, _, _)
ScoreLoopReversed(rows, i, predictions) ==
    IF i > rows.len THEN ScoreResp(200, "array", predictions, "")
    ELSE IF IsList(ListItem(rows, i)) /\ ListItem(rows, i).len >= 1
    THEN IF PyGt0(ListItem(ListItem(rows, i), 1)) = "TypeError"
         THEN ScoreResp(500, "error", <<>>, "TypeError")
         ELSE ScoreLoopReversed(rows, i + 1,
                  <<MockPrediction(ListItem(ListItem(rows, i), 1))>> \o predictions)
    ELSE ScoreLoopReversed(rows, i + 1, <<RowError>> \o predictions)

\* app_simple.py:35-46: the loop over data['data'], from element i on, with the
\* predictions appended so far; "TypeError" when row[0] > 0 raises.
RECURSIVE ScoreLoop(_, _, _)
ScoreLoop(rows, i, predictions) ==
    IF i > rows.len THEN ScoreResp(200, "array", predictions, "")
    ELSE IF IsList(ListItem(rows, i)) /\ ListItem(rows, i).len >= 1
    THEN IF PyGt0(ListItem(ListItem(rows, i), 1)) = "TypeError"
         THEN ScoreResp(500, "error", <<>>, "TypeError")
         ELSE ScoreLoop(rows, i + 1,
                        Append(predictions, MockPrediction(ListItem(ListItem(rows, i), 1))))
    ELSE ScoreLoop(rows, i + 1, Append(predictions, RowError))

\* app_simple.py:29-71: the handler.
ScoreHandler(data) ==
    IF data.t = "undecodable" THEN ScoreResp(500, "error", <<>>, "BadRequest")
    ELSE IF PyIn("data", data) = "TypeError" THEN ScoreResp(500, "error", <<>>, "TypeError")
    ELSE IF PyIn("data", data) = "True" /\ PyGetItemRaises(data)
         THEN ScoreResp(500, "error", <<>>, "TypeError")
    ELSE IF PyIn("data", data) = "True" /\ IsList(data.m["data"])
         THEN ScoreLoop(data.m["data"], 1, <<>>)
    ELSE IF PyIn("features", data) = "True" /\ PyGetItemRaises(data)
         THEN ScoreResp(500, "error", <<>>, "TypeError")
    ELSE IF PyIn("features", data) = "True" /\ IsList(data.m["features"])
         THEN IF data.m["features"].len >= 1
              THEN IF PyGt0(ListItem(data.m["features"], 1)) = "TypeError"
                   THEN ScoreResp(500, "error", <<>>, "TypeError")
                   ELSE ScoreResp(200, "object",
                                  <<MockPrediction(ListItem(data.m["features"], 1))>>, "")
              ELSE ScoreResp(400, "error", <<>>, "Need at least 1 feature")
    ELSE ScoreResp(400, "error", <<>>, "Invalid input format. Use 'data' or 'features'.")

\* Rows of a batch: lists of length 0, 1, 19, 20 and 21 whose first element is
\* a positive number, a non-positive number or a string; and two non-lists.
RowLists ==
    {List(<<first>>, Num("pos"), len) :
        first \in {Num("pos"), Num("neg"), Str("invalid")},
        len \in {1, NFeatures - 1, NFeatures, NFeatures + 1}}
    \cup {List(<<>>, Num("pos"), 0)}

RowValues == RowLists \cup {Str("invalid"), Num("pos")}

RECURSIVE SeqsUpTo(_, _)
SeqsUpTo(S, n) ==
    IF n = 0 THEN {<<>>}
    ELSE SeqsUpTo(S, n - 1) \cup {Append(q, x) : q \in SeqsUpTo(S, n - 1), x \in S}

\* Values of the `data` key: batches of up to MaxRows rows, a flat list of
\* numbers, and non-lists.
DataValues ==
    {List(rows, Null, Len(rows)) : rows \in SeqsUpTo(RowValues, MaxRows)}
    \cup {List(<<>>, Num("pos"), NFeatures), Str("invalid"), Null}

ScoreFeatureValues ==
    {List(<<>>, Num("pos"), NFeatures), List(<<Num("neg")>>, Num("pos"), NFeatures),
     List(<<Str("invalid")>>, Num("pos"), NFeatures), List(<<>>, Num("pos"), 0),
     Str("invalid")}

ScoreBodies ==
    {Undecodable, Null, Num("pos"), Str("invalid"), Str("data"),
     List(<<>>, Num("pos"), 0), List(<<Str("data")>>, Num("pos"), 1), Dict(<<>>)}
    \cup {Dict([k \in {"data"} |-> d]) : d \in DataValues}
    \cup {Dict([k \in {"features"} |-> f]) : f \in ScoreFeatureValues}
    \cup {Dict([k \in {"data", "features"} |-> IF k = "data" THEN d ELSE f]) :
             d \in {x \in DataValues : IsList(x) => x.len <= 1}, f \in ScoreFeatureValues}

\* A request arrives at /score and is answered (the sync worker of
\* gunicorn_config.py:9 serves one request at a time).
Score ==
    /\ sresp = NoScoreResp
    /\ \E data \in ScoreBodies :
          /\ sreq' = data
          /\ sresp' = ScoreHandler(data)
    /\ UNCHANGED <<appVars, workerVars, deployVars>>

\* The response is sent; the worker waits for the next request.
ScoreSent ==
    /\ sresp # NoScoreResp
    /\ sreq' = NoBody
    /\ sresp' = NoScoreResp
    /\ UNCHANGED <<appVars, workerVars, deployVars>>

(***************************************************************************)
(* app.py under gunicorn (gunicorn_config.py).  preload_app = True         *)
(* (line 19): the master imports app.py, so ml_model is constructed and    *)
(* loaded once, and every worker is a fork of the master holding its own   *)
(* copy of the handle.  worker_class = "sync" (line 9): a worker serves    *)
(* one request at a time.  All of them write the one model.pkl.            *)
(***************************************************************************)
Workers == 1..NWorkers

WorkerResp(ep, status) == [ep |-> ep, status |-> status]

Worker(p, m, f, r) == [pc |-> p, model |-> m, fitted |-> f, last |-> r]

NoWorker == Worker("none", 0, FALSE, WorkerResp("none", 0))

WorkerSet(w, p, m, f, r) == wk' = [wk EXCEPT ![w] = Worker(p, m, f, r)]

WorkerFrame ==
    UNCHANGED <<pc, loc, model, model_version, model_fitted, allowNaN, last, saved,
                scoreVars, deployVars>>

\* The master forks worker w (at start, or to replace a worker that left): the
\* worker's handle is a copy of the master's.
WorkerFork(w) ==
    /\ Listening
    /\ wk[w].pc = "none"
    /\ WorkerSet(w, "idle", model, model_fitted, WorkerResp("none", 0))
    /\ UNCHANGED <<nobj, disk>>
    /\ WorkerFrame

\* gunicorn_config.py:15-16: after max_requests requests the worker leaves.
WorkerRecycle(w) ==
    /\ wk[w].pc = "idle"
    /\ wk' = [wk EXCEPT ![w] = NoWorker]
    /\ UNCHANGED <<nobj, disk>>
    /\ WorkerFrame

\* POST /predict with a valid body in worker w: app.py:111-143, 62-74.
WorkerPredict(w) ==
    /\ wk[w].pc = "idle"
    /\ WorkerSet(w, "idle", wk[w].model, wk[w].fitted,
                 WorkerResp("predict", IF wk[w].model # 0 /\ wk[w].fitted THEN 200 ELSE 500))
    /\ UNCHANGED <<nobj, disk>>
    /\ WorkerFrame

\* POST /retrain in worker w, app.py:154-159 and 28-38.
WorkerRetrain(w) ==
    /\ wk[w].pc = "idle"
    /\ nobj < MaxObj
    /\ nobj' = nobj + 1
    /\ WorkerSet(w, "t39", nobj + 1, FALSE, wk[w].last)
    /\ UNCHANGED disk
    /\ WorkerFrame

\* app.py:39 in worker w.
WorkerFit(w) ==
    /\ wk[w].pc = "t39"
    /\ \/ WorkerSet(w, "t42", wk[w].model, TRUE, wk[w].last)
       \/ WorkerSet(w, "idle", wk[w].model, wk[w].fitted, WorkerResp("retrain", 500))
    /\ UNCHANGED <<nobj, disk>>
    /\ WorkerFrame

\* app.py:42-43 in worker w.
WorkerEvaluate(w) ==
    /\ wk[w].pc = "t42"
    /\ WorkerSet(w, "t48", wk[w].model, wk[w].fitted, wk[w].last)
    /\ UNCHANGED <<nobj, disk>>
    /\ WorkerFrame

\* app.py:48-51 and 161-174 in worker w: joblib.dump to the shared path, which
\* may fail before it opens the file or part way through writing it.
WorkerSave(w) ==
    /\ wk[w].pc = "t48"
    /\ \/ /\ disk' = Pickled(wk[w].fitted)
          /\ WorkerSet(w, "idle", wk[w].model, wk[w].fitted, WorkerResp("retrain", 200))
       \/ /\ disk' \in {disk, Corrupt}
          /\ WorkerSet(w, "idle", wk[w].model, wk[w].fitted, WorkerResp("retrain", 500))
    /\ UNCHANGED nobj
    /\ WorkerFrame

(***************************************************************************)
(* The deployment scripts.  One run of one script: deploy_to_azure_ml.py   *)
(* ("full"), deploy_to_azure_ml_production.py ("production"),              *)
(* deploy_to_azure_ml_simple.py ("simple") and                             *)
(* deploy_to_azure_ml_minimal.py ("minimal").  Every call of the Azure     *)
(* SDK, and every write to the GITHUB_OUTPUT file, succeeds or raises.     *)
(* A deployment on the endpoint is named by its creation time.             *)
(***************************************************************************)
Scripts == {"full", "production", "simple", "minimal"}
Fallback == {"simple", "minimal"}

\* env: the ENVIRONMENT after get_environment_config; ci: GITHUB_ACTIONS is
\* set; missing: a required variable is not set; endpoint: the endpoint
\* exists; created: this run's deployment creation completed; traffic: this
\* run set the traffic; uri: the scoring URI read; reported: the URI the run
\* ends with; failedAt: the step that raised; deps: the deployments on the
\* endpoint; listed: those cleanup listed; todo: those it still has to
\* delete; cleanup: "no", "ran" or "failed".
DeployRun(script, env, ci, missing, endpoint, deps) ==
    [script |-> script, env |-> env, ci |-> ci, missing |-> missing, pc |-> "start",
     endpoint |-> endpoint, created |-> FALSE, traffic |-> FALSE, uri |-> "none",
     reported |-> "none", failedAt |-> "", deps |-> deps, listed |-> {},
     todo |-> <<>>, cleanup |-> "no"]

NoDeploy == [DeployRun("none", "DEV", FALSE, FALSE, FALSE, {}) EXCEPT !.pc = "none"]

DeployFrame == UNCHANGED <<appVars, scoreVars, workerVars>>

\* A step raised.  simple: main's except calls simulate_deployment
\* (deploy_to_azure_ml_simple.py:193-196, 197-199); minimal: deploy_minimal's
\* except does (deploy_to_azure_ml_minimal.py:108-111); full and production:
\* the run ends with sys.exit(1) (deploy_to_azure_ml.py:506-508,
\* deploy_to_azure_ml_production.py:81, 121, 202).
DeployFails(step) ==
    dp' = [dp EXCEPT !.pc = IF dp.script \in Fallback THEN "simulate" ELSE "failed",
                     !.failedAt = step]

\* The configuration is read and checked.
DeployStart ==
    /\ dp.pc = "start"
    /\ IF dp.missing /\ dp.script # "full"
       THEN DeployFails("config")
       ELSE dp' = [dp EXCEPT !.pc = "client"]
    /\ DeployFrame

\* MLClient(...) and client.workspaces.get(...).
DeployClient ==
    /\ dp.pc = "client"
    /\ \/ dp' = [dp EXCEPT !.pc = "endpoint"]
       \/ DeployFails("client")
    /\ DeployFrame

\* The endpoint is created or updated (full), or fetched and created when it
\* is not found (the others).
DeployEndpoint ==
    /\ dp.pc = "endpoint"
    /\ \/ dp' = [dp EXCEPT !.pc = "deployment", !.endpoint = TRUE]
       \/ DeployFails("endpoint")
    /\ DeployFrame

\* A variant of DeployCreate that goes on to the traffic when the creation
\* of the deployment raised.
DeployCreateIgnoresFailure ==
    /\ dp.pc = "deployment"
    /\ \/ \E d \in {dp.deps \cup {MaxDeployments + 1}} \cup (IF dp.deps = {} THEN {} ELSE {dp.deps}) :
             dp' = [dp EXCEPT !.pc = "traffic", !.created = TRUE, !.deps = d]
       \/ DeployFails("environment")
       \/ dp' = [dp EXCEPT !.pc = "traffic", !.failedAt = "deployment"]
    /\ DeployFrame

\* Environment(...) is built, then
\* online_deployments.begin_create_or_update(deployment).result(): a new
\* deployment, the most recent one, or an update of the one of that name.
DeployCreate ==
    /\ dp.pc = "deployment"
    /\ \/ \E d \in {dp.deps \cup {MaxDeployments + 1}} \cup (IF dp.deps = {} THEN {} ELSE {dp.deps}) :
             dp' = [dp EXCEPT !.pc = "traffic", !.created = TRUE, !.deps = d]
       \/ DeployFails("environment")
       \/ DeployFails("deployment")
    /\ DeployFrame

\* endpoint.traffic = {deployment_name: 100} and the update of the endpoint.
DeployTraffic ==
    /\ dp.pc = "traffic"
    /\ \/ dp' = [dp EXCEPT !.pc = "details", !.traffic = TRUE]
       \/ DeployFails("traffic")
    /\ DeployFrame

\* The endpoint is fetched for its scoring URI.  full and production:
\* get_endpoint_details returns None when anything in it raises.
DeployDetails ==
    /\ dp.pc = "details"
    /\ \/ dp' = [dp EXCEPT !.pc = IF dp.script \in Fallback THEN "output" ELSE "test",
                           !.uri = "real"]
       \/ IF dp.script \in Fallback
          THEN DeployFails("details")
          ELSE dp' = [dp EXCEPT !.pc = "test"]
    /\ DeployFrame

\* simple and minimal: the URI is appended to the GITHUB_OUTPUT file and
\* returned.
DeployOutput ==
    /\ dp.pc = "output"
    /\ \/ dp' = [dp EXCEPT !.pc = "done", !.reported = dp.uri]
       \/ DeployFails("output")
    /\ DeployFrame

\* full and production: the endpoint is tested.  full leaves with
\* sys.exit(1) when the test failed outside GitHub Actions, and goes on to
\* the cleanup in PRODUCTION.
DeployTest ==
    /\ dp.pc = "test"
    /\ \E passed \in BOOLEAN :
          IF dp.script = "full" /\ ~passed /\ ~dp.ci
          THEN dp' = [dp EXCEPT !.pc = "failed", !.failedAt = "test"]
          ELSE IF dp.script = "full" /\ dp.env = "PRODUCTION"
          THEN dp' = [dp EXCEPT !.pc = "cleanup", !.reported = dp.uri]
          ELSE dp' = [dp EXCEPT !.pc = "done", !.reported = dp.uri]
    /\ DeployFrame

\* The k most recently created of the deployments S.
MostRecent(S, k) == {x \in S : Cardinality({y \in S : y > x}) < k}

Newest(S) == CHOOSE x \in S : \A y \in S : y <= x

\* sorted(..., key=created_time, reverse=True)
RECURSIVE Descending(_)
Descending(S) ==
    IF S = {} THEN <<>> ELSE <<Newest(S)>> \o Descending(S \ {Newest(S)})

\* A variant of ToDelete that sorts oldest first.
ToDeleteOldestFirst(S) ==
    [i \in 1..(Cardinality(S) - KeepCount) |-> Descending(S)[Cardinality(S) + 1 - i - KeepCount]]

\* sorted_deployments[keep_count:]
ToDelete(S) ==
    [i \in 1..(Cardinality(S) - KeepCount) |-> Descending(S)[i + KeepCount]]

\* cleanup_old_deployments up to its loop (deploy_to_azure_ml.py:421-436).
DeployCleanupList ==
    /\ dp.pc = "cleanup"
    /\ \/ IF Cardinality(dp.deps) <= KeepCount
          THEN dp' = [dp EXCEPT !.pc = "done", !.cleanup = "ran", !.listed = dp.deps]
          ELSE dp' = [dp EXCEPT !.pc = "deleting", !.cleanup = "ran", !.listed = dp.deps,
                                !.todo = ToDelete(dp.deps)]
       \/ dp' = [dp EXCEPT !.pc = "done", !.cleanup = "failed", !.listed = dp.deps]
    /\ DeployFrame

\* One turn of the loop of deploy_to_azure_ml.py:438-443; when begin_delete
\* raises, the except of lines 447-448 ends the cleanup.
DeployCleanupDelete ==
    /\ dp.pc = "deleting"
    /\ \/ dp' = [dp EXCEPT !.deps = dp.deps \ {Head(dp.todo)},
                           !.todo = Tail(dp.todo),
                           !.pc = IF Len(dp.todo) = 1 THEN "done" ELSE "deleting"]
       \/ dp' = [dp EXCEPT !.pc = "done", !.cleanup = "failed"]
    /\ DeployFrame

\* simulate_deployment: the mock URI is appended to the GITHUB_OUTPUT file
\* and returned; when the write raises nothing catches it.
DeploySimulate ==
    /\ dp.pc = "simulate"
    /\ \/ dp' = [dp EXCEPT !.pc = "done", !.reported = "mock"]
       \/ dp' = [dp EXCEPT !.pc = "crashed"]
    /\ DeployFrame

(***************************************************************************)
(* The specification of one process running app.py.                        *)
(***************************************************************************)
InitApp ==
    /\ pc = [e \in {Main} \cup Threads |-> IF e = Main THEN "l77" ELSE "idle"]
    /\ loc = [t \in Threads |-> NoBody]
    /\ model = 0
    /\ model_version = ""
    /\ model_fitted = FALSE
    /\ nobj = 0
    /\ disk \in {Absent, Corrupt, Pickled(TRUE)}
    /\ allowNaN \in BOOLEAN
    /\ last = NoExchange
    /\ saved = NoPatch

InitScore ==
    /\ sreq = NoBody
    /\ sresp = NoScoreResp

\* No worker has been forked.
InitNoWorkers == wk = [w \in Workers |-> NoWorker]

\* No deployment script runs.
InitNoDeploy == dp = NoDeploy

Init == InitApp /\ InitScore /\ InitNoWorkers /\ InitNoDeploy

Next ==
    \/ Construct
    \/ LoadExisting
    \/ LoadTrain
    \/ ProbeBeforeListen
    \/ \E e \in {Main} \cup Threads : TrainFit(e)
    \/ \E e \in {Main} \cup Threads : TrainEvaluate(e)
    \/ \E e \in {Main} \cup Threads : TrainSave(e)
    \/ \E t \in Threads : Retrain(t)
    \/ \E t \in Threads : \E data \in PredictBodies : Predict(t, data)
    \/ \E t \in Threads : PredictLabel(t)
    \/ \E t \in Threads : PredictProba(t)
    \/ \E t \in Threads : Health(t)
    \/ \E t \in Threads : Readiness(t)
    \/ \E t \in Threads : Metrics(t)

Spec == Init /\ [][Next]_vars

\* The threads of the server are scheduled fairly: a handler that can take its
\* next step eventually takes it.
HandlerStep(t) ==
    \/ PredictLabel(t)
    \/ PredictProba(t)
    \/ TrainFit(t)
    \/ TrainEvaluate(t)
    \/ TrainSave(t)

SpecLive == Spec /\ \A t \in Threads : WF_vars(HandlerStep(t))

\* The same process under the test suite (tests/test_app.py:12-17), which
\* patches the handle.  The requests come from Flask's test client, which runs
\* each handler to its end in the calling thread: one request at a time.
NextTest ==
    \/ Next /\ \A t \in Threads \ {1} : pc'[t] = "idle"
    \/ Patch
    \/ Unpatch

SpecTest == Init /\ [][NextTest]_vars

\* app.py under gunicorn: the master imports app.py (it serves no request
\* itself), then the workers are forked and serve.
NextWorkers ==
    \/ Construct
    \/ LoadExisting
    \/ LoadTrain
    \/ TrainFit(Main)
    \/ TrainEvaluate(Main)
    \/ TrainSave(Main)
    \/ \E w \in Workers : WorkerFork(w)
    \/ \E w \in Workers : WorkerRecycle(w)
    \/ \E w \in Workers : WorkerPredict(w)
    \/ \E w \in Workers : WorkerRetrain(w)
    \/ \E w \in Workers : WorkerFit(w)
    \/ \E w \in Workers : WorkerEvaluate(w)
    \/ \E w \in Workers : WorkerSave(w)

SpecWorkers == Init /\ [][NextWorkers]_vars

\* One run of a deployment script.
InitDeploy ==
    /\ InitApp /\ disk = Absent /\ ~allowNaN
    /\ InitScore
    /\ InitNoWorkers
    /\ \E script \in Scripts, env \in {"DEV", "PRODUCTION"}, ci \in BOOLEAN,
          missing \in BOOLEAN, endpoint \in BOOLEAN, deps \in SUBSET (1..MaxDeployments) :
          /\ script # "full" => env = "DEV" /\ ~ci /\ deps = {}
          /\ script = "full" => ~missing
          /\ ~endpoint => deps = {}
          /\ dp = DeployRun(script, env, ci, missing, endpoint, deps)

NextDeploy ==
    \/ DeployStart
    \/ DeployClient
    \/ DeployEndpoint
    \/ DeployCreate
    \/ DeployTraffic
    \/ DeployDetails
    \/ DeployOutput
    \/ DeployTest
    \/ DeployCleanupList
    \/ DeployCleanupDelete
    \/ DeploySimulate

SpecDeploy == InitDeploy /\ [][NextDeploy]_vars

\* A process running app_simple.py.
NextScore ==
    \/ Score
    \/ ScoreSent

SpecScore == Init /\ [][NextScore]_vars

(***************************************************************************)
(* Properties.                                                             *)
(***************************************************************************)
HasFeaturesKey(b) == b.t = "dict" /\ "features" \in DOMAIN b.m

\* The validation rules for a single row: a `features` list of NFeatures
\* finite numbers.
PassesValidation(b) ==
    /\ HasFeaturesKey(b)
    /\ IsList(b.m["features"])
    /\ b.m["features"].len = NFeatures
    /\ \A e \in ListItems(b.m["features"]) : IsFiniteNumber(e)

Decoded(b) == b.t \notin {"undecodable", "nobody"}

RetrainInFlight == \E u \in Threads : pc[u] \in {"t39", "t42", "t48"}

\* C1 (retrain atomicity): a predict that runs while a retrain is in flight
\* reads a complete classifier, the one before or the one after the retrain; it
\* never fails on a classifier that is installed but not yet fitted.
C1_RetrainAtomicity ==
    ~(/\ last.ep = "predict"
      /\ last.resp.err = "NotFittedError"
      /\ RetrainInFlight)

\* C2: GET /readiness answers 200 "ready" exactly when ml_model.model is not
\* None, and 503 "not_ready" when it is None.
C2_ReadinessIffModel ==
    [][\A t \in Threads :
          Readiness(t) =>
              /\ (last'.resp.status = 200 /\ last'.resp.text = "ready") <=> model # 0
              /\ model = 0 => last'.resp.status = 503 /\ last'.resp.text = "not_ready"]_vars

C2_Witness ==
    /\ last.ep = "readiness"
    /\ last.resp.status = 503
    /\ last.resp.text = "not_ready"
    /\ model = 0

C4_InvalidPayloadRejected ==
    (last.ep = "predict" /\ Decoded(last.body) /\ ~PassesValidation(last.body)) =>
        last.resp.status = 400 /\ last.invoked = "none"

\* C5: a decoded JSON body without a `features` key is answered 400 with an
\* `error` field, whatever the state of the handle.
C5_MissingFeatures ==
    (last.ep = "predict" /\ Decoded(last.body) /\ ~HasFeaturesKey(last.body)) =>
        last.resp.status = 400 /\ "error" \in last.resp.keys

\* C6: a `features` value that is not a list, or a list of a length other than
\* 20, is answered 400 with an `error` field.
C6_BadFeatures ==
    (/\ last.ep = "predict"
     /\ HasFeaturesKey(last.body)
     /\ \/ ~IsList(last.body.m["features"])
        \/ last.body.m["features"].len # NFeatures) =>
        last.resp.status = 400 /\ "error" \in last.resp.keys

\* A list one longer than required was refused with 400.
C6_Witness ==
    /\ last.ep = "predict"
    /\ HasFeaturesKey(last.body)
    /\ IsList(last.body.m["features"])
    /\ last.body.m["features"].len = NFeatures + 1
    /\ last.resp.status = 400
    /\ last.resp.keys = {"error"}

\* C7: a `features` list of length 20 with an element that is not a finite
\* number is answered 400 and the model is not invoked.
C7_NonFiniteRejected ==
    (/\ last.ep = "predict"
     /\ HasFeaturesKey(last.body)
     /\ IsList(last.body.m["features"])
     /\ last.body.m["features"].len = NFeatures
     /\ \E e \in ListItems(last.body.m["features"]) : ~IsFiniteNumber(e)) =>
        last.resp.status = 400 /\ last.invoked = "none"

\* C8: while the handle holds a classifier, a `features` list of 20 finite
\* numbers is answered 200 with success, a timestamp and a result holding a
\* class in {0, 1}, two probabilities and the handle's version.
C8_ValidPredictSucceeds ==
    (/\ last.ep = "predict"
     /\ PassesValidation(last.body)
     /\ last.resp.err # "Model not loaded") =>
        /\ last.resp.status = 200
        /\ last.resp.success = "True"
        /\ {"success", "result", "timestamp"} \subseteq last.resp.keys
        /\ last.resp.result.prediction \in {0, 1}
        /\ last.resp.result.nprob = 2
        /\ last.resp.result.version = model_version

\* C9: with no classifier in the handle, ml_model.predict raises "Model not
\* loaded" before any classifier method is called, and /predict with a
\* well-formed `features` list answers 500 with success false and that message.
C9_PredictWithoutModel ==
    [][model = 0 =>
          \A t \in Threads : \A data \in PredictBodies :
              (/\ HasFeaturesKey(data)
               /\ IsList(data.m["features"])
               /\ data.m["features"].len = NFeatures
               /\ Predict(t, data)) =>
                  /\ last'.ep = "predict"
                  /\ last'.body = data
                  /\ last'.resp.status = 500
                  /\ last'.resp.success = "False"
                  /\ "error" \in last'.resp.keys
                  /\ last'.resp.err = "Model not loaded"
                  /\ last'.invoked = "handle"
                  /\ pc'[t] = "idle"]_vars

C9_Witness ==
    /\ last.ep = "predict"
    /\ last.resp.status = 500
    /\ last.resp.err = "Model not loaded"
    /\ last.invoked = "handle"
    /\ model = 0

IsBatch(d) == IsList(d) /\ \E i \in 1..d.len : IsList(ListItem(d, i))

BadRow(r) == ~IsList(r) \/ r.len # NFeatures

\* C10 (reject-whole-batch): a /score batch with a row that is not a list or
\* has the wrong length gets one error response for the whole request, never an
\* array of per-row results.
C10_RejectWholeBatch ==
    (/\ sreq.t = "dict"
     /\ "data" \in DOMAIN sreq.m
     /\ IsBatch(sreq.m["data"])
     /\ \E i \in 1..sreq.m["data"].len : BadRow(ListItem(sreq.m["data"], i))) =>
        sresp.shape = "error" /\ sresp.status \in {400, 500}

ValidRow(r) ==
    IsList(r) /\ r.len = NFeatures /\ \A e \in ListItems(r) : IsFiniteNumber(e)

ValidBatch(d) ==
    IsList(d) /\ d.len >= 1 /\ \A i \in 1..d.len : ValidRow(ListItem(d, i))

HasKey(b, k) == b.t = "dict" /\ k \in DOMAIN b.m

\* C11 (shape precedence): a /score payload with both a valid `features` list
\* and a valid `data` list is handled as the single row of `features`: the
\* response is the single prediction object for that row, not an array.
C11_FeaturesPrecedence ==
    (/\ HasKey(sreq, "features") /\ HasKey(sreq, "data")
     /\ ValidRow(sreq.m["features"])
     /\ ValidBatch(sreq.m["data"])) =>
        /\ sresp.status = 200
        /\ sresp.shape = "object"
        /\ sresp.items = <<MockPrediction(ListItem(sreq.m["features"], 1))>>

\* C12 (batch order): a /score batch of N valid rows is answered 200 with an
\* array of exactly N prediction objects, the i-th of them the prediction for
\* the i-th row.
C12_BatchOrder ==
    (HasKey(sreq, "data") /\ ValidBatch(sreq.m["data"])) =>
        /\ sresp.status = 200
        /\ sresp.shape = "array"
        /\ Len(sresp.items) = sreq.m["data"].len
        /\ \A i \in 1..sreq.m["data"].len :
              /\ sresp.items[i].kind = "prediction"
              /\ sresp.items[i] = MockPrediction(ListItem(ListItem(sreq.m["data"], i), 1))

\* A batch of MaxRows valid rows, the first two with different predictions,
\* has been answered.
C12_Witness ==
    /\ HasKey(sreq, "data") /\ ValidBatch(sreq.m["data"])
    /\ sreq.m["data"].len = MaxRows
    /\ sresp.shape = "array"
    /\ Len(sresp.items) = MaxRows
    /\ sresp.items[1].prediction = 1
    /\ sresp.items[2].prediction = 0

IsFlatNumbers(d) ==
    IsList(d) /\ d.len >= 1 /\ \A e \in ListItems(d) : IsFiniteNumber(e)

\* C13 (flat data): a `data` value that is one flat sequence of numbers is
\* handled as a single row, as the same sequence under `features` is: one
\* prediction for the whole sequence, not one result per element.
C13_FlatDataIsOneRow ==
    (/\ HasKey(sreq, "data") /\ ~HasKey(sreq, "features")
     /\ IsFlatNumbers(sreq.m["data"])) =>
        /\ sresp = ScoreHandler(Dict([k \in {"features"} |-> sreq.m["data"]]))
        /\ sresp.shape = "object"

MatchesNoShape(b) ==
    /\ b.t \notin {"undecodable", "nobody"}
    /\ ~(HasKey(b, "data") /\ IsList(b.m["data"]))
    /\ ~(HasKey(b, "features") /\ IsList(b.m["features"]))

\* C14 (invalid format): a /score request whose decoded body has neither a
\* `data` list nor a `features` list is answered 400 with the invalid input
\* format error, and no prediction is produced.
C14_InvalidFormat ==
    MatchesNoShape(sreq) =>
        /\ sresp.status = 400
        /\ sresp.shape = "error"
        /\ sresp.err = "Invalid input format. Use 'data' or 'features'."
        /\ sresp.items = <<>>

TrainPcs == {"t39", "t42", "t48"}

\* C15 (retrain once): POST /retrain enters train_model once; train_model
\* then either goes on to its next statement or ends the request: with 200,
\* success true and the accuracy it measured when it returns, with 500,
\* success false and an error when it raises.  It is never entered again.
C15_RetrainOnce ==
    [][\A t \in Threads :
          /\ Retrain(t) => pc'[t] = "t39" /\ nobj' = nobj + 1
          /\ (pc[t] \in TrainPcs /\ pc'[t] # pc[t]) =>
                \/ <<pc[t], pc'[t]>> \in {<<"t39", "t42">>, <<"t42", "t48">>}
                \/ /\ pc'[t] = "idle"
                   /\ nobj' = nobj
                   /\ last'.ep = "retrain"
                   /\ \/ /\ pc[t] = "t48"
                         /\ last'.resp.status = 200
                         /\ last'.resp.success = "True"
                         /\ "accuracy" \in last'.resp.keys
                         /\ last'.resp.result.accuracy = ForestAccuracy
                      \/ /\ last'.resp.status = 500
                         /\ last'.resp.success = "False"
                         /\ "error" \in last'.resp.keys
                         /\ last'.resp.err # ""]_vars

\* A retraining raised while saving and was answered 500; no thread is inside
\* train_model.
C15_Witness ==
    /\ last.ep = "retrain"
    /\ last.resp.status = 500
    /\ last.resp.err = "OSError"
    /\ \A t \in Threads : pc[t] = "idle"

\* C16 (static version): once the handle is constructed its model_version is
\* "1.0.0" for good, and that is the version /health, /metrics and every
\* prediction result report, whatever loads, predictions and retrainings
\* (successful or failed) came before.
C16_VersionStatic ==
    /\ pc[Main] # "l77" => model_version = "1.0.0"
    /\ last.ep \in {"health", "metrics"} => last.resp.result.version = "1.0.0"
    /\ (last.ep = "predict" /\ last.resp.status = 200) =>
          last.resp.result.version = "1.0.0"

\* /metrics answered after a retraining replaced the loaded classifier.
C16_Witness ==
    /\ last.ep = "metrics"
    /\ last.resp.result.version = "1.0.0"
    /\ nobj >= 2
    /\ model = nobj
    /\ model_fitted

\* C17 (load): with an artifact on disk load_model installs the deserialized
\* classifier and does not enter train_model; without one it enters
\* train_model, once.  When load_model returns the handle holds a classifier.
C17_Load ==
    [][/\ (pc[Main] = "l78" /\ pc'[Main] # "l78") =>
             IF disk.kind = "absent"
             THEN pc'[Main] = "t39" /\ nobj' = 1 /\ model' = 1
             ELSE /\ pc'[Main] \in {"serving", "crashed"}
                  /\ disk' = disk
                  /\ pc'[Main] = "serving" =>
                        model' = 1 /\ nobj' = 1 /\ model_fitted' = disk.fitted
       /\ (pc[Main] \in TrainPcs /\ pc'[Main] # pc[Main]) =>
             /\ <<pc[Main], pc'[Main]>> \in
                   {<<"t39", "t42">>, <<"t42", "t48">>, <<"t48", "serving">>,
                    <<"t39", "crashed">>, <<"t42", "crashed">>, <<"t48", "crashed">>}
             /\ nobj' = 1
       /\ (pc[Main] # "serving" /\ pc'[Main] = "serving") =>
             model' # 0 /\ model_fitted']_vars

\* load_model returned after training: the one classifier made is resident,
\* fitted and saved, and no request has been served yet.
C17_Witness ==
    /\ pc[Main] = "serving"
    /\ model = 1
    /\ nobj = 1
    /\ model_fitted
    /\ disk = Pickled(TRUE)
    /\ last.resp = NoResponse

\* C18 (corrupt artifact): load_model with an artifact that does not
\* deserialize does not raise: the import of app.py does not fail on it.
C18_CorruptFallsThrough ==
    (disk.kind = "corrupt" /\ nobj = 0) => pc[Main] # "crashed"

\* C19 (train persists): when train_model has returned to /retrain, the
\* artifact on disk is a fitted classifier and the accuracy returned is
\* between 0 and 1 (0 to TestSize correct rows of TestSize).
C19_TrainPersists ==
    (last.ep = "retrain" /\ last.resp.status = 200) =>
        /\ disk = Pickled(TRUE)
        /\ last.resp.result.accuracy \in 0..TestSize

\* C20 as stated (only train_model assigns): every change of the handle's
\* classifier is train_model's assignment of app.py:38.
C20_OnlyTrainAssigns ==
    [][model' # model =>
          \E e \in {Main} \cup Threads : pc[e] \notin TrainPcs /\ pc'[e] = "t39"]_vars

\* C20 (frame), amended: the handle's classifier is assigned by train_model
\* (app.py:38) and by load_model's joblib.load (app.py:57) only; the steps of
\* /predict, /health, /readiness and /metrics leave the resident classifier
\* and the artifact as they are.
C20_AssignedByTrainAndLoad ==
    [][/\ model' # model =>
             \/ \E e \in {Main} \cup Threads : pc[e] \notin TrainPcs /\ pc'[e] = "t39"
             \/ pc[Main] = "l78" /\ pc'[Main] = "serving"
       /\ (\/ \E t \in Threads : pc'[t] \in {"p67", "p68"} /\ pc'[t] # pc[t]
           \/ last'.ep \in {"predict", "health", "readiness", "metrics"} /\ last' # last) =>
             UNCHANGED <<model, model_fitted, nobj, disk>>]_vars

\* /metrics was served while another thread is inside train_model, after the
\* artifact was loaded and a retraining replaced the classifier.
C20_Witness ==
    /\ last.ep = "metrics"
    /\ model >= 2
    /\ \E u \in Threads : pc[u] \in TrainPcs

\* C21 (health): every answer of GET /health is 200 with status "healthy",
\* whatever the handle holds and whether or not a retraining is under way.
C21_HealthAlwaysHealthy ==
    last.ep = "health" =>
        /\ last.resp.status = 200
        /\ last.resp.text = "healthy"
        /\ last.resp.keys = {"status", "timestamp", "version"}

\* /health answered while a retraining has installed a classifier it has not
\* fitted yet.
C21_Witness ==
    /\ last.ep = "health"
    /\ last.resp.status = 200
    /\ ~model_fitted
    /\ \E u \in Threads : pc[u] = "t39"

\* The responses the handlers build themselves: a JSON object with status 200,
\* 400 or 500, and an "error" field unless the status is 200.
InEnvelope(resp) ==
    /\ resp.status \in {200, 400, 500}
    /\ resp.keys # {}
    /\ resp.status # 200 => "error" \in resp.keys

ScoreInEnvelope(resp) ==
    /\ resp.status \in {200, 400, 500}
    /\ resp.shape \in {"object", "array", "error"}
    /\ resp.status # 200 <=> resp.shape = "error"
    /\ resp.shape = "error" => resp.err # ""

\* C22 (error propagation): every /predict and /retrain exchange ends with a
\* response of the handler's own making, status 200, 400 or 500, and every
\* handler that has started comes to its end; /score, a function of the body
\* alone, answers every body in the same way.
C22_ErrorPropagation ==
    /\ [](last.ep \in {"predict", "retrain"} => InEnvelope(last.resp))
    /\ [](pc[Main] = "l77" => \A data \in ScoreBodies : ScoreInEnvelope(ScoreHandler(data)))
    /\ \A t \in Threads : (pc[t] # "idle") ~> (pc[t] = "idle")

\* /predict answered a body that is no JSON object with the 500 of its except
\* clause.
C22_Witness ==
    /\ last.ep = "predict"
    /\ last.body.t \in {"null", "num", "undecodable"}
    /\ last.resp.status = 500
    /\ last.resp.keys = ErrorBody

\* C23 (workers): the operations of one worker do not interfere with another
\* through shared state: the artifact a worker persisted (its /retrain was
\* answered 200, and it has done nothing since) is still the fitted classifier
\* it wrote, whatever the other workers did meanwhile.
C23_WorkersDoNotInterfere ==
    \A w \in Workers :
        (wk[w].pc = "idle" /\ wk[w].last = WorkerResp("retrain", 200)) =>
            disk = Pickled(TRUE)

C25_NeverEmptyAgain ==
    [][/\ model # 0 => model' # 0
       /\ (Listening /\ last'.ep = "readiness" /\ last' # last) =>
             last'.resp.status = 200 /\ last'.resp.text = "ready"]_vars

\* /readiness answered 200 after a retraining failed in fit: the handle holds
\* the classifier that was not fitted.
C25_Witness ==
    /\ last.ep = "readiness"
    /\ last.resp.status = 200
    /\ nobj >= 2
    /\ ~model_fitted
    /\ \A t \in Threads : pc[t] = "idle"

\* C26 (unchanged on error): after the first /retrain of a process was
\* answered 500, the resident classifier is the fitted one loaded at start and
\* the artifact is the one that start left.
C26_UnchangedOnError ==
    (last.ep = "retrain" /\ last.resp.status = 500 /\ nobj = 2) =>
        /\ model = 1
        /\ model_fitted
        /\ disk = Pickled(TRUE)

\* C27 (/score with a data list): the answer is 200 with one entry per element
\* of `data`, in order: a prediction for an element that is a list with at
\* least one element, the invalid row error for any other.
C27_ScoreDataList ==
    (HasKey(sreq, "data") /\ IsList(sreq.m["data"])) =>
        /\ sresp.status = 200
        /\ sresp.shape = "array"
        /\ Len(sresp.items) = sreq.m["data"].len
        /\ \A i \in 1..sreq.m["data"].len :
              IF IsList(ListItem(sreq.m["data"], i)) /\ ListItem(sreq.m["data"], i).len >= 1
              THEN sresp.items[i].kind = "prediction"
              ELSE sresp.items[i] = RowError

\* What cleanup_old_deployments leaves when no step of it fails.
CleanupKeeps(S) == IF Cardinality(S) <= KeepCount THEN S ELSE MostRecent(S, KeepCount)

\* C28 as stated: cleanup_old_deployments runs only in PRODUCTION, never
\* makes the run fail, and once it is over the endpoint holds all the
\* deployments it had when there were at most keep_count, and otherwise
\* exactly the keep_count most recently created.
C28_CleanupExact ==
    /\ dp.cleanup # "no" => dp.env = "PRODUCTION" /\ dp.pc \in {"deleting", "done"}
    /\ (dp.cleanup # "no" /\ dp.pc = "done") => dp.deps = CleanupKeeps(dp.listed)

\* C28 (amended): cleanup_old_deployments runs only in PRODUCTION and never
\* makes the run fail; it never deletes one of the keep_count most recently
\* created deployments and deletes nothing when there are at most
\* keep_count; when no step of it fails it leaves exactly the keep_count
\* most recently created, and when a step fails it stops with the older
\* deployments it had not reached still there.
C28_CleanupBestEffort ==
    /\ dp.cleanup # "no" => dp.env = "PRODUCTION" /\ dp.pc \in {"deleting", "done"}
    /\ dp.cleanup # "no" =>
          /\ CleanupKeeps(dp.listed) \subseteq dp.deps
          /\ dp.deps \subseteq dp.listed
    /\ (dp.cleanup = "ran" /\ dp.pc = "done") => dp.deps = CleanupKeeps(dp.listed)

C28_Witness ==
    /\ dp.pc = "done"
    /\ dp.cleanup = "ran"
    /\ Cardinality(dp.listed) > KeepCount + 1
    /\ dp.deps = MostRecent(dp.listed, KeepCount)

\* C29: in every run of a deployment script the traffic is set (or about to
\* be set) only when the endpoint exists and this run's creation of the
\* deployment has completed; a run in which the creation of the endpoint or
\* of the deployment failed never sets the traffic.
C29_TrafficAfterCreation ==
    /\ (dp.traffic \/ dp.pc = "traffic") => dp.endpoint /\ dp.created
    /\ dp.failedAt \in {"config", "client", "endpoint", "environment", "deployment"} =>
          ~dp.traffic /\ dp.pc # "traffic"

C29_Witness ==
    /\ dp.traffic
    /\ dp.pc = "details"
    /\ dp.endpoint
    /\ dp.created

\* C30: a run of the simplified or the minimal script always ends with an
\* endpoint URI: nothing escapes main, a run in which a step failed or a
\* variable was missing ends with the mock URI, and the real URI is what it
\* ends with only when every step of the real deployment succeeded.
C30_AlwaysEndsWithUri ==
    dp.script \in Fallback =>
        /\ dp.pc # "crashed"
        /\ dp.pc = "done" => dp.reported \in {"real", "mock"}
        /\ (dp.pc = "done" /\ dp.failedAt # "") => dp.reported = "mock"
        /\ dp.reported = "real" =>
              dp.failedAt = "" /\ dp.endpoint /\ dp.created /\ dp.traffic

=============================================================================
